---- MODULE Spec2Model ----
(***************************************************************************)
(* Model of src/server.js: an Express HTTP gateway that forwards four      *)
(* record operations to the Airtable REST API behind a bearer-token check. *)
(*                                                                         *)
(* The process validates its environment configuration, starts listening,  *)
(* and then serves requests.  A request runs the middleware chain          *)
(* (express.json, authenticate) and its route handler up to the first      *)
(* await on an upstream call in one step; the continuation after the       *)
(* upstream call settles is a second step.                                 *)
(***************************************************************************)
EXTENDS Naturals, Sequences, FiniteSets, TLC

(* ----------------------------------------------------------------------- *)
(* Bounds                                                                  *)
(* ----------------------------------------------------------------------- *)

\* Number of requests the server handles concurrently in the model.
MaxRequests == 2

Req == 1..MaxRequests

(* ----------------------------------------------------------------------- *)
(* JavaScript values                                                       *)
(* ----------------------------------------------------------------------- *)

\* undefined, and a defined value.
Absent == [present |-> FALSE]
Some(v) == [present |-> TRUE, val |-> v]

\* JavaScript !x for a value that is undefined or a string.
Falsy(x) == (~x.present) \/ (x.val = "")

\* Template-literal interpolation `${x}` of a value that is undefined or a string.
Interpolate(x) == IF x.present THEN x.val ELSE "undefined"

StartsWith(s, p) == Len(s) >= Len(p) /\ SubSeq(s, 1, Len(p)) = p

\* Characters encodeURIComponent leaves alone are copied; the reserved ones
\* that occur in the modelled table names are percent-escaped.
EscapeChar(c) ==
  IF c = " " THEN "%20"
  ELSE IF c = "/" THEN "%2F"
  ELSE IF c = "%" THEN "%25"
  ELSE c

\* The escaped form of the characters of s from position i on.
RECURSIVE EscapeFrom(_, _)
EscapeFrom(s, i) ==
  IF i > Len(s) THEN ""
  ELSE EscapeChar(SubSeq(s, i, i)) \o EscapeFrom(s, i + 1)

encodeURIComponent(s) == EscapeFrom(s, 1)

(* ----------------------------------------------------------------------- *)
(* Process environment and configuration                                   *)
(* ----------------------------------------------------------------------- *)

\* What process.env may hold for each required variable: unset, empty, set.
TokenValues == {Absent, Some(""), Some("patTok")}
BaseValues == {Absent, Some(""), Some("appBase")}
TableValues == {Absent, Some(""), Some("My Table")}
SecretValues == {Absent, Some(""), Some("s3cret")}

Environments ==
  [AIRTABLE_API_TOKEN : TokenValues,
   AIRTABLE_BASE_ID : BaseValues,
   AIRTABLE_TABLE_NAME : TableValues,
   MCP_SERVER_SECRET : SecretValues]

\* The startup check with the server secret left out of the condition.
MissingRequiredNoSecret(c) ==
  \/ Falsy(c.AIRTABLE_API_TOKEN)
  \/ Falsy(c.AIRTABLE_BASE_ID)
  \/ Falsy(c.AIRTABLE_TABLE_NAME)

\* The startup check's condition: some required value is missing or empty.
MissingRequired(c) ==
  \/ Falsy(c.AIRTABLE_API_TOKEN)
  \/ Falsy(c.AIRTABLE_BASE_ID)
  \/ Falsy(c.AIRTABLE_TABLE_NAME)
  \/ Falsy(c.MCP_SERVER_SECRET)

\* The tool catalog: names and the required properties of the input schemas.
ToolCatalog ==
  << [name |-> "airtable_get_records", required |-> {}],
     [name |-> "airtable_create_record", required |-> {"fields"}],
     [name |-> "airtable_update_record", required |-> {"recordId", "fields"}],
     [name |-> "airtable_delete_record", required |-> {"recordId"}] >>

RegisteredNames == {ToolCatalog[i].name : i \in 1..Len(ToolCatalog)}

DefaultMaxRecords == 10

(* ----------------------------------------------------------------------- *)
(* Request inputs                                                          *)
(* ----------------------------------------------------------------------- *)

\* Argument mappings: every key of the input schemas, each present or not.
EmptyArgs ==
  [maxRecords |-> Absent, filterByFormula |-> Absent, view |-> Absent,
   fields |-> Absent, recordId |-> Absent]

FullArgs ==
  [maxRecords |-> Some(5), filterByFormula |-> Some("{Done}"), view |-> Some("Grid"),
   fields |-> Some("{Name:Ada}"), recordId |-> Some("rec123")]

\* The request body as it reaches express.json: text that is not JSON, or
\* the value req.body holds after parsing (undefined when nothing was parsed).
Malformed == [parses |-> FALSE, value |-> Absent]
Parsed(v) == [parses |-> TRUE, value |-> v]

Bodies == {Malformed, Parsed(Absent), Parsed(Some(EmptyArgs)), Parsed(Some(FullArgs))}

\* The Authorization header: none, the configured secret, another secret.
Headers == {Absent, Some("Bearer s3cret"), Some("Bearer wrong")}

ToolNames == RegisteredNames \cup {"airtable_drop_table"}

GetTools == "GET /tools"
PostTool == "POST /tools/:toolName"

Requests ==
  [route : {PostTool}, toolName : ToolNames, authorization : Headers, body : Bodies]
  \cup
  [route : {GetTools}, toolName : {""}, authorization : Headers,
   body : {Malformed, Parsed(Absent)}]

NoRequest ==
  [route |-> "", toolName |-> "", authorization |-> Absent, body |-> Parsed(Absent)]

\* Outcomes of one upstream call: a 2xx response with its payload, a non-2xx
\* response, a transport failure.  axios rejects with an Error in the last two.
Fulfilled(d) == [ok |-> TRUE, data |-> d, message |-> ""]
Rejected(m) == [ok |-> FALSE, data |-> "", message |-> m]
NoOutcome == [ok |-> FALSE, data |-> "", message |-> "<pending>"]

Outcomes ==
  {Fulfilled("rec123"),
   Rejected("Request failed with status code 404"),
   Rejected("Network Error")}

VARIABLES
  config,       \* the four configuration constants read from process.env
  tools,        \* the tool catalog
  phase,        \* "boot", "configured", "listening", "exited"
  exitStatus,   \* the status process.exit was called with, if it was
  validations,  \* how many times the startup check ran
  pc,           \* per request: "idle", "awaiting", "done"
  request,      \* per request: its inputs
  handlerRan,   \* per request: whether its route handler was entered
  upstream,     \* per request: the upstream calls it issued, in order
  outcome,      \* per request: how its upstream call settled
  dispatch,     \* per request: the completions of executeAirtableTool
  res           \* per request: the responses sent, in order

vars ==
  << config, tools, phase, exitStatus, validations,
     pc, request, handlerRan, upstream, outcome, dispatch, res >>

startupVars == << config, tools, phase, exitStatus, validations >>
requestVars == << pc, request, handlerRan, upstream, outcome, dispatch, res >>

(* ----------------------------------------------------------------------- *)
(* Airtable API functions                                                  *)
(* ----------------------------------------------------------------------- *)

TextBlock(t) == [type |-> "text", text |-> t]

\* How an async function completes: it returns a value or throws an Error.
Returned(v) == [threw |-> FALSE, message |-> "", value |-> v]
Threw(m) == [threw |-> TRUE, message |-> m, value |-> [content |-> << >>]]

\* How the part of a function before its await ends: with one upstream call
\* issued, or with an Error thrown before any call.
Issue(c) == [threw |-> FALSE, message |-> "", call |-> << c >>]
Fail(m) == [threw |-> TRUE, message |-> m, call |-> << >>]

\* The TypeError of reading property k of undefined.
TypeErrorReading(k) == "Cannot read properties of undefined (reading '" \o k \o "')"

\* JSON.stringify(data, null, 2) of an upstream payload {id: d}.
Stringify(d) == "{\n  \"id\": \"" \o d \o "\"\n}"

TableUrl(cfg) ==
  "https://api.airtable.com/v0/" \o Interpolate(cfg.AIRTABLE_BASE_ID) \o "/"
    \o encodeURIComponent(Interpolate(cfg.AIRTABLE_TABLE_NAME))

BearerToken(cfg) == "Bearer " \o Interpolate(cfg.AIRTABLE_API_TOKEN)

UpstreamCall(method, url, cfg, params, data, contentType) ==
  [method |-> method, url |-> url, authorization |-> BearerToken(cfg),
   params |-> params, data |-> data, contentType |-> contentType]

\* getRecords up to its await: the query parameters and the GET call.
getRecordsCall(args, cfg) ==
  IF ~args.present THEN Fail(TypeErrorReading("maxRecords"))
  ELSE
    LET a == args.val
        params ==
          [maxRecords |->
             IF a.maxRecords.present /\ a.maxRecords.val # 0
             THEN a.maxRecords.val ELSE DefaultMaxRecords,
           filterByFormula |->
             IF Falsy(a.filterByFormula) THEN Absent ELSE a.filterByFormula,
           view |-> IF Falsy(a.view) THEN Absent ELSE a.view]
    IN Issue(UpstreamCall("GET", TableUrl(cfg), cfg, Some(params), Absent, Absent))

createRecordCall(args, cfg) ==
  IF ~args.present THEN Fail(TypeErrorReading("fields"))
  ELSE Issue(UpstreamCall("POST", TableUrl(cfg), cfg, Absent,
                          Some([fields |-> args.val.fields]),
                          Some("application/json")))

updateRecordCall(args, cfg) ==
  IF ~args.present THEN Fail(TypeErrorReading("recordId"))
  ELSE Issue(UpstreamCall("PATCH",
                          TableUrl(cfg) \o "/" \o Interpolate(args.val.recordId),
                          cfg, Absent,
                          Some([fields |-> args.val.fields]),
                          Some("application/json")))

deleteRecordCall(args, cfg) ==
  IF ~args.present THEN Fail(TypeErrorReading("recordId"))
  ELSE Issue(UpstreamCall("DELETE",
                          TableUrl(cfg) \o "/" \o Interpolate(args.val.recordId),
                          cfg, Absent, Absent, Absent))

\* The text each function puts before the serialized payload.
SuccessPrefix(toolName) ==
  CASE toolName = "airtable_get_records" -> ""
    [] toolName = "airtable_create_record" -> "Record created: "
    [] toolName = "airtable_update_record" -> "Record updated: "
    [] toolName = "airtable_delete_record" -> "Record deleted: "

\* The value a function returns once its upstream call is fulfilled with o.
SuccessResult(toolName, o) ==
  [content |-> << TextBlock(SuccessPrefix(toolName) \o Stringify(o.data)) >>]

\* The switch without its default branch throwing: an unlisted name falls
\* into the first case.
SwitchCallNoDefault(toolName, args, cfg) ==
  CASE toolName = "airtable_create_record" -> createRecordCall(args, cfg)
    [] toolName = "airtable_update_record" -> updateRecordCall(args, cfg)
    [] toolName = "airtable_delete_record" -> deleteRecordCall(args, cfg)
    [] OTHER -> getRecordsCall(args, cfg)

\* The switch of executeAirtableTool, up to the await of the selected
\* function; the default branch throws.
SwitchCall(toolName, args, cfg) ==
  CASE toolName = "airtable_get_records" -> getRecordsCall(args, cfg)
    [] toolName = "airtable_create_record" -> createRecordCall(args, cfg)
    [] toolName = "airtable_update_record" -> updateRecordCall(args, cfg)
    [] toolName = "airtable_delete_record" -> deleteRecordCall(args, cfg)
    [] OTHER -> Fail("Unknown tool: " \o toolName)

\* The try block of executeAirtableTool, run to completion: o is how the
\* upstream call settled, when one was issued.
SwitchBody(toolName, args, cfg, o) ==
  LET s == SwitchCall(toolName, args, cfg)
  IN IF s.threw THEN Threw(s.message)
     ELSE IF ~o.ok THEN Threw(o.message)
     ELSE Returned(SuccessResult(toolName, o))

\* The catch block returning the bare message, without the "Error: " prefix.
ErrorResultBare(message) ==
  [content |-> << TextBlock(message) >>, isError |-> TRUE]

\* The catch block of executeAirtableTool.
ErrorResult(message) ==
  [content |-> << TextBlock("Error: " \o message) >>, isError |-> TRUE]

\* The dispatcher without its try/catch: what the switch throws propagates.
executeAirtableToolNoCatch(toolName, args, cfg, o) ==
  SwitchBody(toolName, args, cfg, o)

executeAirtableTool(toolName, args, cfg, o) ==
  LET b == SwitchBody(toolName, args, cfg, o)
  IN IF b.threw THEN Returned(ErrorResult(b.message)) ELSE b

(* ----------------------------------------------------------------------- *)
(* HTTP front door                                                         *)
(* ----------------------------------------------------------------------- *)

\* authenticate: TRUE when next() is called.
authenticate(authHeader, cfg) ==
  ~(Falsy(authHeader)
    \/ authHeader.val # "Bearer " \o Interpolate(cfg.MCP_SERVER_SECRET))

Unauthorized == [status |-> 401, body |-> [error |-> "Unauthorized"]]

\* express.json rejects a body that is not JSON; the default error handler
\* answers 400 with an HTML page.
BadRequest == [status |-> 400, body |-> [html |-> "SyntaxError"]]

ToolsResponse(catalog) == [status |-> 200, body |-> [tools |-> catalog]]

\* The POST handler mapping an isError result to an HTTP error status.
PostResponseErrorStatus(c) ==
  IF c.threw \/ ("isError" \in DOMAIN c.value /\ c.value.isError)
  THEN [status |-> 500,
        body |-> [error |-> c.message,
                  content |-> << TextBlock("Error: " \o c.message) >>,
                  isError |-> TRUE]]
  ELSE [status |-> 200, body |-> c.value]

\* The try/catch of the POST handler around the awaited dispatch c.
PostResponse(c) ==
  IF c.threw
  THEN [status |-> 500,
        body |-> [error |-> c.message,
                  content |-> << TextBlock("Error: " \o c.message) >>,
                  isError |-> TRUE]]
  ELSE [status |-> 200, body |-> c.value]

(* ----------------------------------------------------------------------- *)
(* Initial state and actions                                               *)
(* ----------------------------------------------------------------------- *)

Init ==
  /\ config \in Environments
  /\ tools = ToolCatalog
  /\ phase = "boot"
  /\ exitStatus = Absent
  /\ validations = 0
  /\ pc = [r \in Req |-> "idle"]
  /\ request = [r \in Req |-> NoRequest]
  /\ handlerRan = [r \in Req |-> FALSE]
  /\ upstream = [r \in Req |-> << >>]
  /\ outcome = [r \in Req |-> NoOutcome]
  /\ dispatch = [r \in Req |-> << >>]
  /\ res = [r \in Req |-> << >>]

\* The startup check: exit with status 1 when a required value is missing.
Startup ==
  /\ phase = "boot"
  /\ validations' = validations + 1
  /\ IF MissingRequired(config)
     THEN phase' = "exited" /\ exitStatus' = Some(1)
     ELSE phase' = "configured" /\ exitStatus' = exitStatus
  /\ UNCHANGED << config, tools >>
  /\ UNCHANGED requestVars

\* app.listen: the server starts accepting connections.
Listen ==
  /\ phase = "configured"
  /\ phase' = "listening"
  /\ UNCHANGED << config, tools, exitStatus, validations >>
  /\ UNCHANGED requestVars

\* One request through express.json, authenticate and its route handler, up
\* to the response or to the await of the upstream call.
Receive(r) ==
  /\ phase = "listening"
  /\ pc[r] = "idle"
  /\ \E q \in Requests :
       /\ request' = [request EXCEPT ![r] = q]
       /\ IF ~q.body.parses
          THEN /\ res' = [res EXCEPT ![r] = Append(@, BadRequest)]
               /\ pc' = [pc EXCEPT ![r] = "done"]
               /\ UNCHANGED << handlerRan, upstream, dispatch >>
          ELSE IF ~authenticate(q.authorization, config)
          THEN /\ res' = [res EXCEPT ![r] = Append(@, Unauthorized)]
               /\ pc' = [pc EXCEPT ![r] = "done"]
               /\ UNCHANGED << handlerRan, upstream, dispatch >>
          ELSE IF q.route = GetTools
          THEN /\ handlerRan' = [handlerRan EXCEPT ![r] = TRUE]
               /\ res' = [res EXCEPT ![r] = Append(@, ToolsResponse(tools))]
               /\ pc' = [pc EXCEPT ![r] = "done"]
               /\ UNCHANGED << upstream, dispatch >>
          ELSE LET s == SwitchCall(q.toolName, q.body.value, config)
                   c == executeAirtableTool(q.toolName, q.body.value, config, NoOutcome)
               IN /\ handlerRan' = [handlerRan EXCEPT ![r] = TRUE]
                  /\ IF s.threw
                     THEN /\ dispatch' = [dispatch EXCEPT ![r] = Append(@, c)]
                          /\ res' = [res EXCEPT ![r] = Append(@, PostResponse(c))]
                          /\ pc' = [pc EXCEPT ![r] = "done"]
                          /\ UNCHANGED upstream
                     ELSE /\ upstream' = [upstream EXCEPT ![r] = @ \o s.call]
                          /\ pc' = [pc EXCEPT ![r] = "awaiting"]
                          /\ UNCHANGED << dispatch, res >>
  /\ UNCHANGED outcome
  /\ UNCHANGED startupVars

\* The continuation with a retry: a failed first call is issued again.
UpstreamSettleRetry(r) ==
  /\ pc[r] = "awaiting"
  /\ \E o \in Outcomes :
       LET q == request[r]
           c == executeAirtableTool(q.toolName, q.body.value, config, o)
       IN IF ~o.ok /\ Len(upstream[r]) = 1
          THEN /\ upstream' = [upstream EXCEPT ![r] = @ \o @]
               /\ UNCHANGED << pc, outcome, dispatch, res >>
          ELSE /\ outcome' = [outcome EXCEPT ![r] = o]
               /\ dispatch' = [dispatch EXCEPT ![r] = Append(@, c)]
               /\ res' = [res EXCEPT ![r] = Append(@, PostResponse(c))]
               /\ pc' = [pc EXCEPT ![r] = "done"]
               /\ UNCHANGED upstream
  /\ UNCHANGED << request, handlerRan >>
  /\ UNCHANGED startupVars

\* The continuation answering twice: the result is sent, and sent again by
\* the catch block of the handler.
UpstreamSettleTwice(r) ==
  /\ pc[r] = "awaiting"
  /\ \E o \in Outcomes :
       LET q == request[r]
           c == executeAirtableTool(q.toolName, q.body.value, config, o)
       IN /\ outcome' = [outcome EXCEPT ![r] = o]
          /\ dispatch' = [dispatch EXCEPT ![r] = Append(@, c)]
          /\ res' = [res EXCEPT ![r] =
                       IF o.ok THEN Append(@, PostResponse(c))
                       ELSE Append(Append(@, PostResponse(c)), PostResponse(c))]
  /\ pc' = [pc EXCEPT ![r] = "done"]
  /\ UNCHANGED << request, handlerRan, upstream >>
  /\ UNCHANGED startupVars

\* The continuation with the upstream outcome kept in a slot shared by all
\* requests: every suspended request is resumed with the outcome of r.
UpstreamSettleShared(r) ==
  /\ pc[r] = "awaiting"
  /\ \E o \in Outcomes :
       LET Done(x) ==
             executeAirtableTool(request[x].toolName, request[x].body.value, config, o)
       IN /\ outcome' = [x \in Req |-> IF pc[x] = "awaiting" THEN o ELSE outcome[x]]
          /\ dispatch' = [x \in Req |->
                            IF pc[x] = "awaiting" THEN Append(dispatch[x], Done(x))
                            ELSE dispatch[x]]
          /\ res' = [x \in Req |->
                       IF pc[x] = "awaiting"
                       THEN Append(res[x], PostResponse(Done(x)))
                       ELSE res[x]]
  /\ pc' = [x \in Req |-> IF pc[x] = "awaiting" THEN "done" ELSE pc[x]]
  /\ UNCHANGED << request, handlerRan, upstream >>
  /\ UNCHANGED startupVars

\* The upstream call of request r settles and the handler resumes: the
\* dispatcher completes and the response is sent.
UpstreamSettle(r) ==
  /\ pc[r] = "awaiting"
  /\ \E o \in Outcomes :
       LET q == request[r]
           c == executeAirtableTool(q.toolName, q.body.value, config, o)
       IN /\ outcome' = [outcome EXCEPT ![r] = o]
          /\ dispatch' = [dispatch EXCEPT ![r] = Append(@, c)]
          /\ res' = [res EXCEPT ![r] = Append(@, PostResponse(c))]
  /\ pc' = [pc EXCEPT ![r] = "done"]
  /\ UNCHANGED << request, handlerRan, upstream >>
  /\ UNCHANGED startupVars

Next ==
  \/ Startup
  \/ Listen
  \/ \E r \in Req : Receive(r)
  \/ \E r \in Req : UpstreamSettle(r)

Spec == Init /\ [][Next]_vars

\* The upstream settles every call it was sent.
FairSpec == Spec /\ \A r \in Req : WF_vars(UpstreamSettle(r))

(* ----------------------------------------------------------------------- *)
(* Properties                                                              *)
(* ----------------------------------------------------------------------- *)

Received(r) == pc[r] # "idle"
Answered(r) == pc[r] = "done"
IsPost(r) == request[r].route = PostTool
HeaderCorrect(r) ==
  /\ request[r].authorization.present
  /\ request[r].authorization.val = "Bearer " \o config.MCP_SERVER_SECRET.val
Registered(r) ==
  request[r].toolName \in
    {"airtable_get_records", "airtable_create_record",
     "airtable_update_record", "airtable_delete_record"}
AuthedPost(r) == Received(r) /\ IsPost(r) /\ HeaderCorrect(r)

\* A value of the shape {content: [{type: "text", text}]}.
HasTextContent(v) ==
  /\ "content" \in DOMAIN v
  /\ Len(v.content) >= 1
  /\ \A i \in 1..Len(v.content) : v.content[i].type = "text"

\* A value whose content is exactly one text block starting with "Error: ".
IsErrorText(v) ==
  /\ "content" \in DOMAIN v
  /\ Len(v.content) = 1
  /\ v.content[1].type = "text"
  /\ StartsWith(v.content[1].text, "Error: ")

\* C1: every request to GET /tools or POST /tools/:toolName whose
\* Authorization header is absent or differs from "Bearer <secret>" is
\* answered 401 {error: "Unauthorized"}, its route handler is never run and
\* it makes no upstream call, whatever the tool name and the body.
C1_UnauthorizedAlways401 ==
  \A r \in Req :
    (Received(r) /\ ~HeaderCorrect(r)) =>
      /\ res[r] = << [status |-> 401, body |-> [error |-> "Unauthorized"]] >>
      /\ ~handlerRan[r]
      /\ upstream[r] = << >>

\* The part of C1 that concerns requests whose body is absent or parses.
C1_ParsedBodyUnauthorized ==
  \A r \in Req :
    (Received(r) /\ request[r].body.parses /\ ~HeaderCorrect(r)) =>
      /\ res[r] = << [status |-> 401, body |-> [error |-> "Unauthorized"]] >>
      /\ ~handlerRan[r]
      /\ upstream[r] = << >>

\* C2: executeAirtableTool never throws: for every operation name, every
\* argument mapping (a missing one included) and every upstream outcome, it
\* completes by returning a value with text content.
C2_DispatcherNeverThrows ==
  \A r \in Req :
    /\ (Answered(r) /\ handlerRan[r] /\ IsPost(r)) => Len(dispatch[r]) = 1
    /\ \A i \in 1..Len(dispatch[r]) :
         /\ ~dispatch[r][i].threw
         /\ HasTextContent(dispatch[r][i].value)

\* The dispatcher completed for a registered name whose request carried no
\* argument mapping.
C2_Witness ==
  \E r \in Req :
    /\ Answered(r) /\ Registered(r) /\ handlerRan[r]
    /\ ~request[r].body.value.present
    /\ Len(dispatch[r]) = 1

\* C3: when the upstream call of a dispatched operation fails, the dispatcher
\* returns isError = true with exactly one text block "Error: " + the failure
\* message, and the invocation has made exactly one upstream call.
C3_UpstreamFailure ==
  \A r \in Req :
    (Answered(r) /\ upstream[r] # << >> /\ ~outcome[r].ok) =>
      /\ Len(upstream[r]) = 1
      /\ Len(dispatch[r]) = 1
      /\ ~dispatch[r][1].threw
      /\ dispatch[r][1].value =
           [content |-> << [type |-> "text",
                            text |-> "Error: " \o outcome[r].message] >>,
            isError |-> TRUE]

C3_Witness ==
  \E r \in Req :
    /\ Answered(r)
    /\ Len(upstream[r]) = 1
    /\ outcome[r] = Rejected("Request failed with status code 404")
    /\ Len(dispatch[r]) = 1

\* C4: dispatching a name that is not one of the four registered names makes
\* no upstream call and returns isError = true with the text
\* "Error: Unknown tool: <name>".
C4_UnknownTool ==
  \A r \in Req :
    (Received(r) /\ IsPost(r) /\ ~Registered(r)) =>
      /\ upstream[r] = << >>
      /\ handlerRan[r] =>
           /\ Answered(r)
           /\ dispatch[r] =
                << Returned([content |->
                               << [type |-> "text",
                                   text |-> "Error: Unknown tool: "
                                              \o request[r].toolName] >>,
                             isError |-> TRUE]) >>

C4_Witness ==
  \E r \in Req :
    /\ Answered(r) /\ handlerRan[r] /\ IsPost(r)
    /\ request[r].toolName = "airtable_drop_table"
    /\ Len(dispatch[r]) = 1

\* The arguments carry every property the catalog requires for the tool.
ValidArgs(r) ==
  /\ request[r].body.value.present
  /\ \A i \in 1..Len(ToolCatalog) :
       ToolCatalog[i].name = request[r].toolName =>
         \A k \in ToolCatalog[i].required :
           /\ k = "fields" => request[r].body.value.val.fields.present
           /\ k = "recordId" => request[r].body.value.val.recordId.present

DocumentedMethod(toolName) ==
  CASE toolName = "airtable_get_records" -> "GET"
    [] toolName = "airtable_create_record" -> "POST"
    [] toolName = "airtable_update_record" -> "PATCH"
    [] toolName = "airtable_delete_record" -> "DELETE"

DocumentedPrefix(toolName) ==
  CASE toolName = "airtable_get_records" -> ""
    [] toolName = "airtable_create_record" -> "Record created: "
    [] toolName = "airtable_update_record" -> "Record updated: "
    [] toolName = "airtable_delete_record" -> "Record deleted: "

EndsWith(s, t) == Len(s) >= Len(t) /\ SubSeq(s, Len(s) - Len(t) + 1, Len(s)) = t

\* The successful dispatches: one upstream call with the documented method
\* (on the record id for update and delete) and the documented text prefix.
SuccessCallAndText(r) ==
  /\ Len(upstream[r]) = 1
  /\ upstream[r][1].method = DocumentedMethod(request[r].toolName)
  /\ request[r].toolName \in {"airtable_update_record", "airtable_delete_record"} =>
       EndsWith(upstream[r][1].url, "/" \o request[r].body.value.val.recordId.val)
  /\ Len(dispatch[r]) = 1
  /\ ~dispatch[r][1].threw
  /\ Len(dispatch[r][1].value.content) = 1
  /\ StartsWith(dispatch[r][1].value.content[1].text,
                DocumentedPrefix(request[r].toolName))

SucceededDispatch(r) ==
  Answered(r) /\ handlerRan[r] /\ IsPost(r) /\ Registered(r) /\ ValidArgs(r)
    /\ outcome[r].ok

\* C5: for each of the four operation names, dispatching with valid
\* arguments when the upstream call succeeds issues exactly one upstream call
\* with the documented method and returns a result whose isError field is
\* the boolean false and whose text begins with the operation's prefix.
C5_SuccessResult ==
  \A r \in Req :
    SucceededDispatch(r) =>
      /\ SuccessCallAndText(r)
      /\ "isError" \in DOMAIN dispatch[r][1].value
      /\ dispatch[r][1].value.isError = FALSE

\* The part of C5 that does not concern the isError field.
C5_CallAndPrefix ==
  \A r \in Req : SucceededDispatch(r) => SuccessCallAndText(r)

AllPresent ==
  /\ config.AIRTABLE_API_TOKEN.present /\ config.AIRTABLE_API_TOKEN.val # ""
  /\ config.AIRTABLE_BASE_ID.present /\ config.AIRTABLE_BASE_ID.val # ""
  /\ config.AIRTABLE_TABLE_NAME.present /\ config.AIRTABLE_TABLE_NAME.val # ""
  /\ config.MCP_SERVER_SECRET.present /\ config.MCP_SERVER_SECRET.val # ""

\* C6: the configuration is validated exactly once at process start; when a
\* required value is missing or empty the process exits with a non-zero
\* status and never listens, so no request is served with an incomplete
\* configuration; the server listens only when all four are present.
C6_StartupValidation ==
  /\ validations <= 1
  /\ phase # "boot" => validations = 1
  /\ phase \in {"configured", "listening"} => AllPresent
  /\ ~AllPresent => phase \in {"boot", "exited"}
  /\ phase = "exited" =>
       /\ ~AllPresent
       /\ exitStatus.present
       /\ exitStatus.val # 0
  /\ \A r \in Req : Received(r) => (phase = "listening" /\ AllPresent)

\* The process exited because only the server secret was empty.
C6_Witness ==
  /\ phase = "exited"
  /\ exitStatus = Some(1)
  /\ config.MCP_SERVER_SECRET = Some("")
  /\ config.AIRTABLE_API_TOKEN = Some("patTok")
  /\ config.AIRTABLE_BASE_ID = Some("appBase")
  /\ config.AIRTABLE_TABLE_NAME = Some("My Table")

\* The dispatch of request r ended in a business-level error: an unknown
\* name, a missing argument mapping, or a failed upstream call.
BusinessError(r) ==
  \/ ~Registered(r)
  \/ ~request[r].body.value.present
  \/ (upstream[r] # << >> /\ ~outcome[r].ok)

\* C7: an authenticated POST /tools/:toolName whose body parsed is answered
\* with status 200 for every business-level outcome (success, unknown
\* operation, upstream failure; the last two with isError = true in the
\* body); status 500 is returned only when the dispatch call itself throws.
C7_StatusCodes ==
  \A r \in Req :
    (Answered(r) /\ AuthedPost(r) /\ request[r].body.parses) =>
      /\ Len(res[r]) = 1
      /\ res[r][1].status \in {200, 500}
      /\ res[r][1].status = 500 => (Len(dispatch[r]) = 1 /\ dispatch[r][1].threw)
      /\ (Len(dispatch[r]) = 1 /\ ~dispatch[r][1].threw) => res[r][1].status = 200
      /\ BusinessError(r) =>
           /\ res[r][1].status = 200
           /\ "isError" \in DOMAIN res[r][1].body
           /\ res[r][1].body.isError = TRUE

\* An upstream failure was answered with status 200.
C7_Witness ==
  \E r \in Req :
    /\ Answered(r) /\ AuthedPost(r) /\ request[r].body.parses
    /\ upstream[r] # << >>
    /\ outcome[r] = Rejected("Network Error")
    /\ res[r][1].status = 200

\* A response that reports an error to the caller.
ReportsError(resp) ==
  \/ resp.status # 200
  \/ ("isError" \in DOMAIN resp.body /\ resp.body.isError = TRUE)

\* C8: every error the server reports to a caller, whatever its kind
\* (authentication failure, unknown operation, upstream failure, uncaught
\* exception), is rendered as one text content block whose text begins
\* with "Error: ".
C8_EveryErrorIsErrorText ==
  \A r \in Req :
    \A i \in 1..Len(res[r]) :
      ReportsError(res[r][i]) => IsErrorText(res[r][i].body)

\* C8 as amended: every error the invocation handler reports (unknown
\* operation, missing argument mapping, upstream failure, uncaught
\* exception) is rendered as one text content block whose text begins with
\* "Error: "; an authentication failure is reported as {error: "Unauthorized"}
\* and carries no content block.
C8_HandlerErrorsAreErrorText ==
  \A r \in Req :
    /\ (Answered(r) /\ handlerRan[r] /\ IsPost(r)
          /\ (BusinessError(r) \/ ReportsError(res[r][1]))) =>
         IsErrorText(res[r][1].body)
    /\ (Answered(r) /\ request[r].body.parses /\ ~HeaderCorrect(r)) =>
         /\ res[r][1].body.error = "Unauthorized"
         /\ "content" \notin DOMAIN res[r][1].body

\* Both kinds were reported: an unknown operation by the handler and an
\* authentication failure by the middleware.
C8_Witness ==
  /\ \E r \in Req :
       /\ Answered(r) /\ handlerRan[r] /\ IsPost(r) /\ ~Registered(r)
       /\ res[r][1].body.isError = TRUE
  /\ \E r \in Req :
       /\ Answered(r) /\ request[r].body.parses /\ ~HeaderCorrect(r)
       /\ res[r][1].status = 401

\* What a request owns: its inputs, its upstream calls and their outcome, the
\* dispatcher's completion and the responses.
Slice(r) == << pc[r], request[r], handlerRan[r], upstream[r], outcome[r],
               dispatch[r], res[r] >>

ResponseCount ==
  \A r \in Req :
    AuthedPost(r) =>
      /\ Len(res[r]) <= 1
      /\ Answered(r) <=> Len(res[r]) = 1
      /\ pc[r] = "awaiting" =>
           (Registered(r) /\ Len(upstream[r]) = 1 /\ outcome[r] = NoOutcome)
      /\ ~Registered(r) => (Answered(r) /\ upstream[r] = << >>)

\* C9: every authenticated POST /tools/:toolName request receives exactly one
\* response: an unregistered name is answered without any upstream call, a
\* registered name stays suspended only while its single upstream call is
\* outstanding and is answered once the call settles; no request is
\* answered twice.
C9_ExactlyOneResponse ==
  /\ [] ResponseCount
  /\ [][\A r \in Req : Len(res[r]) = 1 => res'[r] = res[r]]_vars
  /\ \A r \in Req : (pc[r] = "awaiting") ~> (Answered(r) /\ Len(res[r]) = 1)

\* A request was suspended on its upstream call and then answered.
C9_Witness ==
  \E r \in Req :
    /\ AuthedPost(r) /\ Answered(r)
    /\ Len(upstream[r]) = 1
    /\ outcome[r] # NoOutcome
    /\ Len(res[r]) = 1

\* Two requests with the same inputs and the same own upstream outcome are
\* answered alike.
SameInputsSameResponse ==
  \A r1, r2 \in Req :
    (Answered(r1) /\ Answered(r2) /\ request[r1] = request[r2]
       /\ outcome[r1] = outcome[r2]) =>
      /\ res[r1] = res[r2]
      /\ upstream[r1] = upstream[r2]
      /\ dispatch[r1] = dispatch[r2]

\* A step changes the state of at most one request.
OneSlicePerStep ==
  \A r1, r2 \in Req :
    r1 # r2 => (Slice(r1)' = Slice(r1) \/ Slice(r2)' = Slice(r2))

\* C10: under any interleaving of concurrent requests no request reads or
\* writes another request's state: a response depends only on the request's
\* own inputs, the configuration and its own upstream outcome; the
\* configuration and the tool catalog are never modified after startup.
C10_Isolation ==
  /\ [] SameInputsSameResponse
  /\ [][OneSlicePerStep]_vars
  /\ [][config' = config /\ tools' = tools]_vars

\* Two identical requests were in flight together and their upstream calls
\* settled differently.
C10_Witness ==
  \E r1, r2 \in Req :
    /\ r1 # r2
    /\ Answered(r1) /\ Answered(r2)
    /\ request[r1] = request[r2]
    /\ outcome[r1] = Fulfilled("rec123")
    /\ outcome[r2] = Rejected("Network Error")
    /\ res[r1] # res[r2]

====
